---- MODULE Spec2Model ----
(***************************************************************************)
(* ads2coa: merge an ADS author/affiliation CSV into the NSF COA template. *)
(*                                                                         *)
(* A string is a sequence of characters; a character is a TLA+ string, and *)
(* "/" is the character _permute_date splits on.  A cell is a record of    *)
(* its value (None or a string) and its five style attributes.  A sheet is *)
(* a function from the (row, column) keys that exist to cells, as          *)
(* openpyxl's Worksheet._cells is.                                         *)
(***************************************************************************)
EXTENDS Integers, Sequences, FiniteSets, TLC

VARIABLES
    files,        \* the directory: filename -> content
    expanded,     \* filenames whose content was saved by a successful run
    runs,         \* number of runs started
    pc,           \* position of the current run in COA.__init__
    err,          \* the exception that ended the run, "none" otherwise
    out_filename, author_affiliations_filename, template_filename,
    files0,       \* the directory as it was when the run started
    fromExpanded, \* the template file loaded by this run came from a save
    wb,           \* self.wb
    wb_alt,       \* self.wb_alt
    df,           \* self.df, <<>> until read
    insertAmount, \* <<the count insert_rows was called with>>, <<>> until then
    styleCopies,  \* iterations made by the style-copy loop
    dateIn,       \* inputs of the _permute_date harness
    dateOut       \* results of the harness, <<>> until applied

vars == <<files, expanded, runs, pc, err, out_filename,
          author_affiliations_filename, template_filename, files0,
          fromExpanded, wb, wb_alt, df, insertAmount, styleCopies,
          dateIn, dateOut>>

runVars == <<files, expanded, runs, pc, err, out_filename,
             author_affiliations_filename, template_filename, files0,
             fromExpanded, wb, wb_alt, df, insertAmount, styleCopies>>

dateVars == <<dateIn, dateOut>>

----------------------------------------------------------------------------
(* Program constants *)

TABLE4_START_ROW == 52
TABLE4_TEMPLATE_PERSON == <<"Alphaman, Lin">>
DEFAULT_TEMPLATE_FILENAME == "coa_template.xlsx"
DEFAULT_AUTHOR_AFFILIATIONS_FILENAME == "authorAffiliations.csv"
DEFAULT_OUT_FILENAME == "coa.xlsx"
NUMBER_OF_EXISTING_ROWS_IN_TABLE4 == 5
TEMPLATE_SHEET_NAME == "NSF COA Template"
NumCols == 5                       \* columns A..E
Cols == 1..NumCols

(* Bounds of the model *)

MaxL == 8          \* longest record list
MaxRuns == 2       \* runs of the program in one behaviour
FirstRow == 50     \* first and last populated row of a template sheet
LastRow == 73
MaxDateLen == 4    \* longest string given to the _permute_date harness

----------------------------------------------------------------------------
(* Cells *)

None == [isNone |-> TRUE, str |-> <<>>]
Str(s) == [isNone |-> FALSE, str |-> s]

EmptyCell ==
    [value |-> None, font |-> 0, alignment |-> 0, border |-> 0, fill |-> 0,
     number_format |-> 0]

StyleOf(cell) ==
    <<cell.font, cell.alignment, cell.border, cell.fill, cell.number_format>>

RowsOf(cells) == {k[1] : k \in DOMAIN cells}
ColsOf(cells) == {k[2] : k \in DOMAIN cells}
MaxOf(S) == CHOOSE m \in S : \A n \in S : n <= m
MinOf(S) == CHOOSE m \in S : \A n \in S : m <= n

(* Worksheet.cell / Worksheet.__getitem__: a cell that is asked for and    *)
(* does not exist is created, empty and with the default style.  (f @@ g   *)
(* is f extended by g where f is not defined.)                             *)
GetCells(cells, keys) == cells @@ [k \in keys |-> EmptyCell]

SetValue(cells, r, c, v) ==
    LET cs == GetCells(cells, {<<r, c>>})
    IN  [cs EXCEPT ![<<r, c>>].value = v]

RowKeys(r) == {<<r, c>> : c \in Cols}

CopyCell(src, dst) ==
    [dst EXCEPT !.value = src.value,
                !.font = src.font,
                !.alignment = src.alignment,
                !.border = src.border,
                !.fill = src.fill,
                !.number_format = src.number_format]

(* copy_range for the one-row range A<row>:E<row> *)
copy_range(row, cells, offset) ==
    LET cs == GetCells(cells, RowKeys(row) \cup RowKeys(row + offset))
    IN  [k \in RowKeys(row + offset) |-> CopyCell(cs[<<row, k[2]>>], cs[k])]
        @@ cs

(* Worksheet.insert_rows(idx, amount) = _move_cells(min_row=idx,           *)
(* offset=amount): iter_rows(min_row=idx) first creates every cell of the  *)
(* rectangle idx..max_row x min_col..max_col, then every cell with row >=  *)
(* idx is stored under row+amount and deleted under its old key.  With     *)
(* amount = 0 the store and the delete hit the same key: zeroDeletes says  *)
(* whether the library build deletes the cell then or leaves it.           *)
insert_rows(cells, idx, amount, zeroDeletes) ==
    LET box == IF DOMAIN cells = {} \/ MaxOf(RowsOf(cells)) < idx THEN {}
               ELSE {<<r, c>> : r \in idx..MaxOf(RowsOf(cells)),
                                c \in MinOf(ColsOf(cells))..MaxOf(ColsOf(cells))}
        cs == GetCells(cells, box)
        moved == {k \in DOMAIN cs : k[1] >= idx}
        kept == DOMAIN cs \ moved
        targets == {<<k[1] + amount, k[2]>> : k \in moved}
        stay == [k \in kept |-> cs[k]] @@ <<>>
    IN  IF amount = 0
        THEN IF zeroDeletes THEN stay ELSE cs
        ELSE [k \in targets |-> cs[<<k[1] - amount, k[2]>>]] @@ stay

----------------------------------------------------------------------------
(* Dates *)

Slashes(s) == {i \in 1..Len(s) : s[i] = "/"}
NumSlashes(s) == Cardinality(Slashes(s))

(* The position of the j-th "/" of s; 0 and Len(s) + 1 stand for the two   *)
(* ends of s.                                                              *)
SlashPos(s, j) ==
    IF j = 0 THEN 0
    ELSE IF j > NumSlashes(s) THEN Len(s) + 1
    ELSE CHOOSE p \in Slashes(s) :
             Cardinality({q \in Slashes(s) : q < p}) = j - 1

(* str.split("/"): the pieces between consecutive separators, one more     *)
(* than there are separators.                                              *)
Split(s) ==
    [j \in 1..(NumSlashes(s) + 1) |->
        SubSeq(s, SlashPos(s, j - 1) + 1, SlashPos(s, j) - 1)]

PermuteRaises_Strict(date_str) == Len(Split(date_str)) # 3
(* date[1] or date[2] does not exist: IndexError *)
PermuteRaises(date_str) == Len(Split(date_str)) < 3

permute_date_Reversed(date_str) ==
    LET date == Split(date_str)
    IN  date[3] \o <<"/">> \o date[2] \o <<"/">> \o date[1]

_permute_date(date_str) ==
    LET date == Split(date_str)
    IN  date[2] \o <<"/">> \o date[3] \o <<"/">> \o date[1]

----------------------------------------------------------------------------
(* Workbooks and table refs.  A ref "A51:E56" is <<"A", 51, "E", 56>>; a   *)
(* workbook is its first sheet's name, that sheet's cells and its tables.  *)

Ref(c1, r1, c2, r2) == <<c1, r1, c2, r2>>
TEMPLATE_TABLED_REF == Ref("A", 51, "E", 56)

NoWb == [sheetname |-> "", cells |-> <<>>, tables |-> <<>>]

num_to_add_Clamped(d) ==
    IF Len(d) > NUMBER_OF_EXISTING_ROWS_IN_TABLE4
    THEN Len(d) - NUMBER_OF_EXISTING_ROWS_IN_TABLE4 ELSE 0
num_to_add(d) == Len(d) - NUMBER_OF_EXISTING_ROWS_IN_TABLE4

(* "empty the first two rows of table 4": values only, 2 rows x 5 columns *)
ClearFirstRows(cells) ==
    LET keys == {<<TABLE4_START_ROW + i, j + 1>> : i \in 0..1, j \in 0..4}
        cs == GetCells(cells, keys)
    IN  [k \in keys |-> [cs[k] EXCEPT !.value = None]] @@ cs

(* "copy the last template row to the end of the new table" *)
FooterOffset(n) == n + NUMBER_OF_EXISTING_ROWS_IN_TABLE4 + 1
CopyFooter(cells, n) ==
    copy_range(TABLE4_START_ROW + 5, cells, FooterOffset(n))

(* for i in range(num_to_add): copy_range("A52:E52", sheet, 1 + i) *)
StyleCopyOffsets(n) == {1 + i : i \in 0..(n - 1)}

(* The sheet after the style loop.  Every copy reads row 52, and no copy   *)
(* writes it (the offsets are 1 or more), so each target row receives the  *)
(* values and styles row 52 had when the loop began.                       *)
StyleLoop(cells, n) ==
    LET targets == UNION {RowKeys(TABLE4_START_ROW + o) :
                             o \in StyleCopyOffsets(n)}
        cs == GetCells(cells, RowKeys(TABLE4_START_ROW) \cup targets)
    IN  IF targets = {} THEN cells
        ELSE [k \in targets |->
                 CopyCell(cs[<<TABLE4_START_ROW, k[2]>>], cs[k])] @@ cs

(* The row the write loop assigns in iteration i (0-based) *)
WriteRow_OffByOne(i) == TABLE4_START_ROW + i + 1
WriteRow(i) == TABLE4_START_ROW + i

(* The columns an iteration assigns, and the value it assigns to each.     *)
(* The right-hand side of the E assignment is evaluated after A..D were    *)
(* assigned: the E cell is left alone when _permute_date raises.           *)
ColsAssigned(row) == IF PermuteRaises(row.date) THEN 1..4 ELSE Cols

Assigned(row, c) ==
    CASE c = 1 -> Str(<<"A:">>)
      [] c = 2 -> Str(row.author)
      [] c = 3 -> Str(row.affil)
      [] c = 4 -> Str(<<>>)
      [] c = 5 -> Str(_permute_date(row.date))

(* for i, row in self.df.iterrows(): the iterations (0-based) the loop     *)
(* enters, which end with the first one that raises.                       *)
Entered(d) ==
    {i \in 0..(Len(d) - 1) :
        \A j \in 0..(i - 1) : ~PermuteRaises(d[j + 1].date)}

(* The sheet after the write loop, and whether the loop raised.  Different *)
(* iterations assign different rows, so each assigned cell has the value   *)
(* of the one iteration that assigns it.                                   *)
WriteRecords(cells, d) ==
    LET entered == Entered(d)
        keys == UNION {{<<WriteRow(i), c>> : c \in ColsAssigned(d[i + 1])} :
                          i \in entered}
        cs == GetCells(cells, keys)
        iter(k) == CHOOSE i \in entered : WriteRow(i) = k[1]
    IN  [cells |-> [k \in keys |->
                      [cs[k] EXCEPT
                          !.value = Assigned(d[iter(k) + 1], k[2])]]
                   @@ cs,
         raised |-> \E i \in entered : PermuteRaises(d[i + 1].date)]

(* The refs the two tables are re-registered with *)
NewTableD5Ref_NoExisting(n) == Ref("A", 58 + n, "E", 68 + n)
NewTableD5Ref(n) ==
    Ref("A", 58 + n + NUMBER_OF_EXISTING_ROWS_IN_TABLE4,
        "E", 68 + n + NUMBER_OF_EXISTING_ROWS_IN_TABLE4)

NewTableDRef(n) ==
    Ref("A", TABLE4_START_ROW - 1,
        "E", TABLE4_START_ROW + n + NUMBER_OF_EXISTING_ROWS_IN_TABLE4 - 1)

(* del sheet.tables[name]; sheet.add_table(Table(..., ref=ref)) *)
ReplaceTable(tables, name, ref) ==
    [t \in DOMAIN tables \cup {name} |-> IF t = name THEN ref ELSE tables[t]]

(* Workbook.save followed by load_workbook: a cell without a value and     *)
(* without a style is not written, and an empty string is read back as no  *)
(* value.                                                                  *)
Saved(book) ==
    LET keep == {k \in DOMAIN book.cells :
                    ~(book.cells[k].value = None
                      /\ StyleOf(book.cells[k]) = StyleOf(EmptyCell))}
    IN  [book EXCEPT !.cells =
            [k \in keep |->
                IF book.cells[k].value = Str(<<>>)
                THEN [book.cells[k] EXCEPT !.value = None]
                ELSE book.cells[k]] @@ <<>>]

----------------------------------------------------------------------------
(* Inputs: template workbooks and CSV files *)

TemplateCell(r, c) ==
    [value |-> Str(<<"T", ToString(r), ToString(c)>>),
     font |-> 10 * r + c, alignment |-> 10 * r + c, border |-> 10 * r + c,
     fill |-> 10 * r + c, number_format |-> 10 * r + c]

Absent == <<>>                      \* a table the workbook does not have
VENDOR_TABLED5_REF == Ref("A", 63, "E", 73)

TablesOf(dref, d5ref) ==
    [t \in {n \in {"TableD", "TableD5"} :
                (n = "TableD" => dref # Absent)
                /\ (n = "TableD5" => d5ref # Absent)} |->
        IF t = "TableD" THEN dref ELSE d5ref]

Template(sheetname, b52, dref, d5ref) ==
    [sheetname |-> sheetname,
     cells |-> [k \in (FirstRow..LastRow) \X Cols |->
                  IF k = <<TABLE4_START_ROW, 2>>
                  THEN [TemplateCell(k[1], k[2]) EXCEPT !.value = Str(b52)]
                  ELSE TemplateCell(k[1], k[2])],
     tables |-> TablesOf(dref, d5ref)]

VendorTemplate ==
    Template(TEMPLATE_SHEET_NAME, TABLE4_TEMPLATE_PERSON,
             TEMPLATE_TABLED_REF, VENDOR_TABLED5_REF)

(* The three shapes that pass the checks (with TableD5 at the vendor's     *)
(* place, elsewhere, or missing) and five shapes that fail one or all.     *)
TemplateShapes ==
    ({TEMPLATE_SHEET_NAME} \X {TABLE4_TEMPLATE_PERSON}
        \X {TEMPLATE_TABLED_REF}
        \X {VENDOR_TABLED5_REF, Ref("A", 60, "E", 70), Absent})
    \cup
    {<<"Sheet1", TABLE4_TEMPLATE_PERSON, TEMPLATE_TABLED_REF,
       VENDOR_TABLED5_REF>>,
     <<TEMPLATE_SHEET_NAME, <<"Doe, Jane">>, TEMPLATE_TABLED_REF,
       VENDOR_TABLED5_REF>>,
     <<TEMPLATE_SHEET_NAME, TABLE4_TEMPLATE_PERSON, Ref("A", 51, "E", 57),
       VENDOR_TABLED5_REF>>,
     <<TEMPLATE_SHEET_NAME, TABLE4_TEMPLATE_PERSON, Absent,
       VENDOR_TABLED5_REF>>,
     <<"Sheet1", <<"Doe, Jane">>, Ref("A", 51, "E", 57),
       VENDOR_TABLED5_REF>>}

Templates == {Template(t[1], t[2], t[3], t[4]) : t \in TemplateShapes}

GoodDate(i) == <<"2022", "/", "06", "/", ToString(i)>>
OddDates ==
    {<<"2022">>, <<"2022", "/", "06">>,
     <<"2022", "/", "06", "/", "01", "/", "x">>}

(* A CSV of L records; the first author may be the template person, and    *)
(* record p (if p > 0) carries the date d.                                 *)
RecordList(L, sentinelFirst, p, d) ==
    [i \in 1..L |->
        [author |-> IF i = 1 /\ sentinelFirst THEN TABLE4_TEMPLATE_PERSON
                    ELSE <<"Author", ToString(i)>>,
         affil |-> <<"Affil", ToString(i)>>,
         date |-> IF i = p THEN d ELSE GoodDate(i)]]

CsvContents ==
    {RecordList(L, s, 0, <<>>) : L \in 1..MaxL, s \in BOOLEAN}
    \cup
    UNION {{RecordList(L, FALSE, p, d) : p \in {1, L}, d \in OddDates} :
              L \in 1..MaxL}

FileNames ==
    {DEFAULT_TEMPLATE_FILENAME, DEFAULT_AUTHOR_AFFILIATIONS_FILENAME,
     DEFAULT_OUT_FILENAME}

NoFile == [kind |-> "absent", wb |-> NoWb, df |-> <<>>]
XlsxFile(book) == [kind |-> "xlsx", wb |-> book, df |-> <<>>]
CsvFile(d) == [kind |-> "csv", wb |-> NoWb, df |-> d]

(* The names main() may pass for the CSV *)
CsvNames == FileNames \ {DEFAULT_TEMPLATE_FILENAME}

(* load_workbook accepts a name by its extension and needs a workbook *)
IsXlsxName(f) == f # DEFAULT_AUTHOR_AFFILIATIONS_FILENAME

----------------------------------------------------------------------------
(* COA._check_is_template: the exception it raises, "none" if it returns *)

CheckFailure_NoPersonCheck(book) ==
    IF book.sheetname # TEMPLATE_SHEET_NAME THEN "ValueError_sheet"
    ELSE IF "TableD" \notin DOMAIN book.tables THEN "KeyError_TableD"
    ELSE IF book.tables["TableD"] # TEMPLATE_TABLED_REF
         THEN "ValueError_location"
    ELSE "none"

CheckFailure(book) ==
    IF book.sheetname # TEMPLATE_SHEET_NAME THEN "ValueError_sheet"
    ELSE IF GetCells(book.cells, {<<TABLE4_START_ROW, 2>>})
                [<<TABLE4_START_ROW, 2>>].value # Str(TABLE4_TEMPLATE_PERSON)
         THEN "ValueError_person"
    ELSE IF "TableD" \notin DOMAIN book.tables THEN "KeyError_TableD"
    ELSE IF book.tables["TableD"] # TEMPLATE_TABLED_REF
         THEN "ValueError_location"
    ELSE "none"

----------------------------------------------------------------------------
(* The program: one run is COA.__init__, called by main() with the three   *)
(* filenames of the command line.                                          *)

Init ==
    /\ \E t \in {NoFile} \cup {XlsxFile(b) : b \in Templates},
          d \in CsvContents :
          files = [f \in FileNames |->
                     IF f = DEFAULT_TEMPLATE_FILENAME THEN t
                     ELSE IF f = DEFAULT_AUTHOR_AFFILIATIONS_FILENAME
                          THEN CsvFile(d)
                     ELSE NoFile]
    /\ expanded = {}
    /\ runs = 0
    /\ pc = "idle"
    /\ err = "none"
    /\ out_filename = DEFAULT_OUT_FILENAME
    /\ author_affiliations_filename = DEFAULT_AUTHOR_AFFILIATIONS_FILENAME
    /\ template_filename = DEFAULT_TEMPLATE_FILENAME
    /\ files0 = files
    /\ fromExpanded = FALSE
    /\ wb = NoWb
    /\ wb_alt = NoWb
    /\ df = <<>>
    /\ insertAmount = <<>>
    /\ styleCopies = 0
    /\ dateIn = <<>>
    /\ dateOut = <<>>

(* main() constructs COA with the parsed command-line arguments *)
StartRun ==
    /\ pc \in {"idle", "done", "error"}
    /\ runs < MaxRuns
    /\ \E o \in FileNames, a \in CsvNames, t \in FileNames :
          /\ out_filename' = o
          /\ author_affiliations_filename' = a
          /\ template_filename' = t
    /\ runs' = runs + 1
    /\ pc' = "exists"
    /\ err' = "none"
    /\ files0' = files
    /\ fromExpanded' = FALSE
    /\ wb' = NoWb
    /\ wb_alt' = NoWb
    /\ df' = <<>>
    /\ insertAmount' = <<>>
    /\ styleCopies' = 0
    /\ UNCHANGED <<files, expanded, dateVars>>

Fail(e) ==
    /\ pc' = "error"
    /\ err' = e

(* os.path.exists(template_filename) *)
TemplateExists ==
    /\ pc = "exists"
    /\ files[template_filename].kind # "absent"
    /\ pc' = "load"
    /\ UNCHANGED <<files, expanded, runs, err, out_filename,
                   author_affiliations_filename, template_filename, files0,
                   fromExpanded, wb, wb_alt, df, insertAmount, styleCopies,
                   dateVars>>

(* urlretrieve(NSF_TEMPLATE_URL, DEFAULT_TEMPLATE_FILENAME): the vendor    *)
(* template is stored under the default name, or the fetch raises.         *)
DownloadTemplate ==
    /\ pc = "exists"
    /\ files[template_filename].kind = "absent"
    /\ template_filename = DEFAULT_TEMPLATE_FILENAME
    /\ \E fetched \in BOOLEAN :
          IF fetched
          THEN /\ files' = [files EXCEPT ![DEFAULT_TEMPLATE_FILENAME] =
                                XlsxFile(VendorTemplate)]
               /\ pc' = "load"
               /\ err' = err
          ELSE /\ Fail("URLError")
               /\ files' = files
    /\ UNCHANGED <<expanded, runs, out_filename,
                   author_affiliations_filename, template_filename, files0,
                   fromExpanded, wb, wb_alt, df, insertAmount, styleCopies,
                   dateVars>>

(* sys.exit(-1) *)
TemplateMissing ==
    /\ pc = "exists"
    /\ files[template_filename].kind = "absent"
    /\ template_filename # DEFAULT_TEMPLATE_FILENAME
    /\ Fail("SystemExit")
    /\ UNCHANGED <<files, expanded, runs, out_filename,
                   author_affiliations_filename, template_filename, files0,
                   fromExpanded, wb, wb_alt, df, insertAmount, styleCopies,
                   dateVars>>

(* self.wb = load_workbook(...); self.wb_alt = load_workbook(...) *)
LoadWorkbooks ==
    /\ pc = "load"
    /\ IF IsXlsxName(template_filename)
          /\ files[template_filename].kind = "xlsx"
       THEN /\ wb' = files[template_filename].wb
            /\ wb_alt' = files[template_filename].wb
            /\ fromExpanded' = (template_filename \in expanded)
            /\ pc' = "check"
            /\ err' = err
       ELSE /\ Fail("InvalidFileException")
            /\ UNCHANGED <<wb, wb_alt, fromExpanded>>
    /\ UNCHANGED <<files, expanded, runs, out_filename,
                   author_affiliations_filename, template_filename, files0,
                   df, insertAmount, styleCopies, dateVars>>

(* self._check_is_template() *)
CheckIsTemplate ==
    /\ pc = "check"
    /\ IF CheckFailure(wb) = "none"
       THEN /\ pc' = "read_csv"
            /\ err' = err
       ELSE Fail(CheckFailure(wb))
    /\ wb' = IF wb.sheetname = TEMPLATE_SHEET_NAME
             THEN [wb EXCEPT !.cells =
                      GetCells(wb.cells, {<<TABLE4_START_ROW, 2>>})]
             ELSE wb
    /\ UNCHANGED <<files, expanded, runs, out_filename,
                   author_affiliations_filename, template_filename, files0,
                   fromExpanded, wb_alt, df, insertAmount, styleCopies,
                   dateVars>>

(* self.df = pd.read_csv(author_affiliations_filename, ...) *)
ReadCsv ==
    /\ pc = "read_csv"
    /\ IF files[author_affiliations_filename].kind = "csv"
       THEN /\ df' = files[author_affiliations_filename].df
            /\ pc' = "add"
            /\ err' = err
       ELSE /\ Fail("ReadCsvError")
            /\ df' = df
    /\ UNCHANGED <<files, expanded, runs, out_filename,
                   author_affiliations_filename, template_filename, files0,
                   fromExpanded, wb, wb_alt, insertAmount, styleCopies,
                   dateVars>>

(* self.add_author_affiliations(): c1..c4 are the sheet after each of its   *)
(* steps in order, w the outcome of the write loop.                        *)
AddAuthorAffiliations ==
    /\ pc = "add"
    /\ \E zeroDeletes \in BOOLEAN :
       \E n \in {num_to_add(df)} :
       \E c1 \in {ClearFirstRows(wb.cells)} :
       \E c2 \in {CopyFooter(c1, n)} :
       \E c3 \in {insert_rows(c2, TABLE4_START_ROW + 2, n, zeroDeletes)} :
       \E c4 \in {StyleLoop(c3, n)} :
       \E w \in {WriteRecords(c4, df)} :
          /\ insertAmount' = <<n>>
          /\ styleCopies' = Cardinality(StyleCopyOffsets(n))
          /\ IF w.raised
             THEN /\ Fail("IndexError")
                  /\ wb' = [wb EXCEPT !.cells = w.cells]
             ELSE IF "TableD5" \notin DOMAIN wb.tables
             THEN /\ Fail("KeyError_TableD5")
                  /\ wb' = [wb EXCEPT !.cells = w.cells]
             ELSE /\ wb' = [wb EXCEPT
                              !.cells = w.cells,
                              !.tables = ReplaceTable(
                                  ReplaceTable(wb.tables, "TableD5",
                                               NewTableD5Ref(n)),
                                  "TableD", NewTableDRef(n))]
                  /\ pc' = "save"
                  /\ err' = err
    /\ UNCHANGED <<files, expanded, runs, out_filename,
                   author_affiliations_filename, template_filename, files0,
                   fromExpanded, wb_alt, df, dateVars>>

(* self.wb.save(out_filename) *)
Save ==
    /\ pc = "save"
    /\ files' = [files EXCEPT ![out_filename] = XlsxFile(Saved(wb))]
    /\ expanded' = expanded \cup {out_filename}
    /\ pc' = "done"
    /\ UNCHANGED <<runs, err, out_filename, author_affiliations_filename,
                   template_filename, files0, fromExpanded, wb, wb_alt, df,
                   insertAmount, styleCopies, dateVars>>

Next ==
    \/ StartRun
    \/ TemplateExists
    \/ DownloadTemplate
    \/ TemplateMissing
    \/ LoadWorkbooks
    \/ CheckIsTemplate
    \/ ReadCsv
    \/ AddAuthorAffiliations
    \/ Save

Spec == Init /\ [][Next]_vars

----------------------------------------------------------------------------
(* The _permute_date harness: two strings over a three-character alphabet  *)
(* are drawn, and the function is applied to both.                         *)

DateAlphabet == {"/", "0", "1"}
DateStrings == UNION {[1..n -> DateAlphabet] : n \in 0..MaxDateLen}

PermuteResult(date_str) ==
    IF PermuteRaises(date_str) THEN [raised |-> TRUE, str |-> <<>>]
    ELSE [raised |-> FALSE, str |-> _permute_date(date_str)]

InitDate ==
    /\ files = [f \in FileNames |-> NoFile]
    /\ expanded = {}
    /\ runs = 0
    /\ pc = "idle"
    /\ err = "none"
    /\ out_filename = DEFAULT_OUT_FILENAME
    /\ author_affiliations_filename = DEFAULT_AUTHOR_AFFILIATIONS_FILENAME
    /\ template_filename = DEFAULT_TEMPLATE_FILENAME
    /\ files0 = files
    /\ fromExpanded = FALSE
    /\ wb = NoWb
    /\ wb_alt = NoWb
    /\ df = <<>>
    /\ insertAmount = <<>>
    /\ styleCopies = 0
    /\ dateIn \in DateStrings \X DateStrings
    /\ dateOut = <<>>

ApplyPermuteDate ==
    /\ dateIn # <<>>
    /\ dateOut = <<>>
    /\ dateOut' = <<PermuteResult(dateIn[1]), PermuteResult(dateIn[2])>>
    /\ UNCHANGED <<runVars, dateIn>>

NextDate == ApplyPermuteDate

SpecDate == InitDate /\ [][NextDate]_vars

----------------------------------------------------------------------------
(* Vocabulary of the properties *)

AfterAdd == pc \in {"save", "done"}       \* add_author_affiliations returned
AddRan == insertAmount # <<>>             \* add_author_affiliations was entered
L == Len(df)

HasRow(book, r) == \A c \in Cols : <<r, c>> \in DOMAIN book.cells
ValueAt(book, r, c) == book.cells[<<r, c>>].value
HasTable(book, t) == t \in DOMAIN book.tables

(* The directory is as the run found it, but for a template it fetched *)
NothingSaved ==
    \A f \in FileNames :
        files[f] # files0[f] =>
            (f = template_filename /\ files0[f].kind = "absent")

(* Position of the n-th "/" of s, Len(s)+1 if s has fewer *)
SlashAt(s, n) ==
    IF NumSlashes(s) < n THEN Len(s) + 1
    ELSE CHOOSE i \in 1..Len(s) :
            /\ s[i] = "/"
            /\ Cardinality({j \in 1..i : s[j] = "/"}) = n

(* YYYY/MM/DD to MM/DD/YYYY by the positions of the separators: what lies  *)
(* between the first and second, between the second and third (or the end) *)
(* and before the first.                                                   *)
MMDDYYYY(s) ==
    SubSeq(s, SlashAt(s, 1) + 1, SlashAt(s, 2) - 1) \o <<"/">>
    \o SubSeq(s, SlashAt(s, 2) + 1, SlashAt(s, 3) - 1) \o <<"/">>
    \o SubSeq(s, 1, SlashAt(s, 1) - 1)

(* x/y/z to z/x/y *)
InverseReorder(s) ==
    SubSeq(s, SlashAt(s, 2) + 1, Len(s)) \o <<"/">>
    \o SubSeq(s, 1, SlashAt(s, 1) - 1) \o <<"/">>
    \o SubSeq(s, SlashAt(s, 1) + 1, SlashAt(s, 2) - 1)

(* Row 52+i holds record i: "A:", author, affiliation, "", reformatted date *)
RowHoldsRecord(book, i, rec) ==
    /\ HasRow(book, 52 + i)
    /\ ValueAt(book, 52 + i, 1) = Str(<<"A:">>)
    /\ ValueAt(book, 52 + i, 2) = Str(rec.author)
    /\ ValueAt(book, 52 + i, 3) = Str(rec.affil)
    /\ ValueAt(book, 52 + i, 4) = Str(<<>>)
    /\ ValueAt(book, 52 + i, 5) = Str(MMDDYYYY(rec.date))

(* The three template checks, on the workbook as it was loaded *)
PassesChecks(book) ==
    /\ book.sheetname = "NSF COA Template"
    /\ <<52, 2>> \in DOMAIN book.cells
    /\ ValueAt(book, 52, 2) = Str(<<"Alphaman, Lin">>)
    /\ HasTable(book, "TableD")
    /\ book.tables["TableD"] = <<"A", 51, "E", 56>>

----------------------------------------------------------------------------
(* C1: for a valid template and L >= 5 records (L = 5 included), after     *)
(* add_author_affiliations TableD is A51:E(51+L) and row 52+i holds "A:",  *)
(* record i's author, its affiliation, "" and its date as MM/DD/YYYY.      *)
C1_TableSpansRecords ==
    (AfterAdd /\ L >= 5) =>
        /\ HasTable(wb, "TableD")
        /\ wb.tables["TableD"] = <<"A", 51, "E", 51 + L>>
        /\ \A i \in 0..(L - 1) : RowHoldsRecord(wb, i, df[i + 1])

C1_Witness == pc = "done" /\ L = 5 /\ PassesChecks(wb_alt)

(* C2: when one of the three checks fails the run ends with an error, the  *)
(* CSV is not read, the workbook in memory is as loaded and the output     *)
(* file is not written.                                                    *)
C2_FailedCheckIsFatal ==
    (wb_alt # NoWb /\ pc # "check" /\ ~PassesChecks(wb_alt)) =>
        /\ pc = "error"
        /\ df = <<>>
        /\ ~AddRan
        /\ wb = wb_alt
        /\ NothingSaved

C2_Witness ==
    /\ pc = "error"
    /\ wb_alt.sheetname = "NSF COA Template"
    /\ ValueAt(wb_alt, 52, 2) # Str(<<"Alphaman, Lin">>)
    /\ wb_alt.tables["TableD"] = <<"A", 51, "E", 56>>

(* C3: a run whose template is the output of an earlier successful run     *)
(* fails validation at check 1 (sheet name) or check 2 (sentinel).         *)
C3_ExpandedOutputIsRejected ==
    (fromExpanded /\ pc # "check") =>
        /\ pc = "error"
        /\ err \in {"ValueError_sheet", "ValueError_person"}

(* C4 as stated: whatever ref TableD5 has in the template, after expansion *)
(* with L >= 5 its first and last rows, and TableD's last row, are the     *)
(* template's plus L-5.                                                    *)
C4_ShiftFromTemplateRefs ==
    (AfterAdd /\ L >= 5) =>
        /\ wb.tables["TableD5"][2] = wb_alt.tables["TableD5"][2] + (L - 5)
        /\ wb.tables["TableD5"][4] = wb_alt.tables["TableD5"][4] + (L - 5)
        /\ wb.tables["TableD"][4] = wb_alt.tables["TableD"][4] + (L - 5)

(* C4 amended: the same for a template whose TableD5 spans rows 63..73.    *)
C4_ShiftFromVendorRefs ==
    (/\ AfterAdd
     /\ L >= 5
     /\ wb_alt.tables["TableD5"][2] = 63
     /\ wb_alt.tables["TableD5"][4] = 73) =>
        /\ wb.tables["TableD5"][2] = wb_alt.tables["TableD5"][2] + (L - 5)
        /\ wb.tables["TableD5"][4] = wb_alt.tables["TableD5"][4] + (L - 5)
        /\ wb.tables["TableD"][4] = wb_alt.tables["TableD"][4] + (L - 5)

C4_Witness ==
    /\ pc = "done"
    /\ L = 8
    /\ wb_alt.tables["TableD5"] = <<"A", 63, "E", 73>>
    /\ wb.tables["TableD5"] = <<"A", 66, "E", 76>>
    /\ wb.tables["TableD"] = <<"A", 51, "E", 59>>

(* C5: for L > 5 every inserted row 54 .. 53+(L-5) has, in each column,    *)
(* the style of the template's first data row, row 52.                     *)
C5_InsertedRowsStyled ==
    (AfterAdd /\ L > 5) =>
        \A r \in 54..(53 + (L - 5)) :
            /\ HasRow(wb, r)
            /\ \A c \in Cols :
                  StyleOf(wb.cells[<<r, c>>]) = StyleOf(wb_alt.cells[<<52, c>>])

(* C6: _permute_date maps a string a/b/c with exactly two separators to    *)
(* b/c/a, is injective on those strings, and the inverse reordering of its *)
(* result is the string it was given.                                      *)
C6_PermuteDateBijection ==
    (dateOut # <<>>) =>
        /\ \A n \in 1..2 :
              NumSlashes(dateIn[n]) = 2 =>
                  /\ ~dateOut[n].raised
                  /\ dateOut[n].str = MMDDYYYY(dateIn[n])
                  /\ NumSlashes(dateOut[n].str) = 2
                  /\ InverseReorder(dateOut[n].str) = dateIn[n]
        /\ (/\ NumSlashes(dateIn[1]) = 2
            /\ NumSlashes(dateIn[2]) = 2
            /\ dateOut[1] = dateOut[2]) => dateIn[1] = dateIn[2]

C6_Witness ==
    /\ dateOut # <<>>
    /\ NumSlashes(dateIn[1]) = 2
    /\ NumSlashes(dateIn[2]) = 2
    /\ dateIn[1] # dateIn[2]
    /\ dateIn[1] = <<"0", "/", "1", "/">>
    /\ dateOut[1].str = <<"1", "/", "/", "0">>

(* C7 as stated: no date string makes the run fail.                        *)
C7_NoDateFailsTheRun == err # "IndexError"

(* C7 amended: the run fails in the write loop (IndexError, nothing saved, *)
(* records after the failing one not written) exactly when some record's   *)
(* date has fewer than two separators; otherwise every record's row holds  *)
(* the date's second, third and first components, whatever follows a third *)
(* separator being dropped.                                                *)
C7_DateFailsIffUnderTwoSlashes ==
    AddRan =>
        /\ (err = "IndexError") <=>
              (\E i \in 1..L : NumSlashes(df[i].date) < 2)
        /\ (err = "IndexError") => (pc = "error" /\ NothingSaved)
        /\ (err # "IndexError") =>
              \A i \in 1..L :
                  /\ HasRow(wb, 51 + i)
                  /\ ValueAt(wb, 51 + i, 5) = Str(MMDDYYYY(df[i].date))

C7_Witness ==
    /\ pc = "done"
    /\ \E i \in 1..L :
          /\ NumSlashes(df[i].date) = 3
          /\ ValueAt(wb, 51 + i, 5) = Str(<<"06", "/", "01", "/", "2022">>)

(* C8: a run never writes the template file or the CSV file: the save goes *)
(* to a file distinct from both, and both have the content they had when   *)
(* the run started.                                                        *)
C8_InputsNeverWritten ==
    (pc = "done") =>
        /\ out_filename # template_filename
        /\ out_filename # author_affiliations_filename
        /\ files0[template_filename].kind # "absent" =>
              files[template_filename] = files0[template_filename]
        /\ files[author_affiliations_filename] =
              files0[author_affiliations_filename]

(* C9: with 1 <= L <= 4 the run is not rejected for its length: the        *)
(* insertion is called with L-5 < 0, the style-copy loop makes no          *)
(* iteration, and unless a date or a missing TableD5 raises, rows          *)
(* 52 .. 51+L hold the records, TableD is A51:E(51+L), TableD5 is          *)
(* A(58+L):E(68+L) and the run is at the save step or past it.             *)
C9_FewerThanFiveRecords ==
    (AddRan /\ L < 5) =>
        /\ insertAmount = <<L - 5>>
        /\ styleCopies = 0
        /\ pc \in {"save", "done", "error"}
        /\ (pc = "error") => err \in {"IndexError", "KeyError_TableD5"}
        /\ (pc = "error") =>
              \/ \E i \in 1..L : NumSlashes(df[i].date) < 2
              \/ ~HasTable(wb_alt, "TableD5")
        /\ AfterAdd =>
              /\ \A i \in 0..(L - 1) : RowHoldsRecord(wb, i, df[i + 1])
              /\ wb.tables["TableD"] = <<"A", 51, "E", 51 + L>>
              /\ wb.tables["TableD5"] = <<"A", 58 + L, "E", 68 + L>>

C9_Witness ==
    /\ pc = "done"
    /\ L = 3
    /\ insertAmount = <<-2>>
    /\ wb.tables["TableD"] = <<"A", 51, "E", 54>>

(* C10: for L >= 5 every template row r >= 57 is found at row r+(L-5) with *)
(* its values and styles, and no row above row 52 is changed.              *)
C10_OtherRowsOnlyMove ==
    (AfterAdd /\ L >= 5) =>
        \A k \in DOMAIN wb_alt.cells :
            /\ k[1] >= 57 =>
                  /\ <<k[1] + (L - 5), k[2]>> \in DOMAIN wb.cells
                  /\ wb.cells[<<k[1] + (L - 5), k[2]>>] = wb_alt.cells[k]
            /\ k[1] < 52 =>
                  /\ k \in DOMAIN wb.cells
                  /\ wb.cells[k] = wb_alt.cells[k]

====
